---- MODULE Spec2Model ----
(***************************************************************************)
(* A model of the agent runtime of agent_fsm_react:                        *)
(*   - the Plan/Act/Observe/Reflect machine of createAgentMachine, driven  *)
(*     by AgentRuntime.run, with the Executor's tool.request/tool.result   *)
(*     events (specification Spec, scenario specification SpecGuard);      *)
(*   - the machine with the STOP event (specification SpecStop);           *)
(*   - the devpanel bridge: POST /run (specification RunSpec), GET /events *)
(*     (specification BridgeSpec);                                         *)
(*   - the EventBus and its subscribers (specification BusSpec);           *)
(*   - the AgentContext class and its snapshots (specifications            *)
(*     ContextSpec and SnapshotSpec);                                      *)
(*   - the eventIds of emitted events (specification EventIdSpec);         *)
(*   - MasterPlanSchema (specification SchemaSpec);                        *)
(*   - a run with BaselinePlanner and BaselineReflector (specification     *)
(*     BaselineSpec);                                                      *)
(*   - the devpanel client store and its SSE connection (specification     *)
(*     StoreSpec).                                                         *)
(* A nullable value of the program is a sequence of length at most one:    *)
(* <<>> is null/undefined, <<x>> is the value x.                           *)
(***************************************************************************)
EXTENDS Integers, Sequences, FiniteSets, TLC

VARIABLES
    guardConfig,   \* config.guard: maxIterations, maxFailures, maxDurationMs
    state,         \* the machine's state value (the target of the last transition)
    status,        \* the actor: "notStarted", "active", "done" or "error"
    call,          \* the invoked service whose promise is pending
    settled,       \* the done or error event of a settled service, in flight
    context,       \* MachineContext
    agentContext,  \* the live AgentContext
    events,        \* every BusEvent emitted on the EventBus, in order
    nanoidCount,   \* number of ids nanoid() has handed out as traceId
    expired,       \* Date.now() - startedAt > maxDurationMs
    budget,        \* how long an event log the model follows, or null
    requests,      \* bridge: the POST /run handlers, each at its await
    activeRun,     \* bridge: the activeRun promise (a run id) or null
    runs,          \* bridge: each AgentRuntime.run promise: pending or settled
    microtasks,    \* bridge: continuations queued by a settled promise
    eventHistory,  \* bridge: buffered bus events
    snapshotHistory, \* bridge: buffered snapshots
    clients,       \* bridge: the set of live SSE clients
    written,       \* bridge: what was written to each SSE response
    listeners,     \* EventBus: the handlers attached to the emitter, in order
    delivered,     \* EventBus: per subscription, what its subscriber received
    deliveries,    \* EventBus: the emit calls in progress, innermost last
    heap,          \* AgentContext: the objects contexts and snapshots are made of
    thisSnapshot,  \* AgentContext: the object the field this.snapshot refers to
    handles,       \* AgentContext: the objects getSnapshot has returned
    now,           \* Date.now(), in milliseconds
    eventIds,      \* the eventId of each BusEvent emitted, in order
    candidate,     \* MasterPlanSchema: the value handed to safeParse
    issues,        \* MasterPlanSchema: the paths of the issues found, or null
    storeStatus,   \* devpanel store: status
    storeSnapshots, \* devpanel store: snapshots
    storeEvents,   \* devpanel store: events
    teardown,      \* devpanel store: the teardown function held, or null
    eventSource,   \* devpanel: the EventSource of connectBridgeRuntime, or null
    reconnectTimer, \* devpanel: the reconnect timer is pending
    healthChecks   \* devpanel store: connect calls awaiting checkHealth

fsmVars == <<guardConfig, state, status, call, settled, context, agentContext, events,
             nanoidCount, expired, budget>>
bridgeVars == <<requests, activeRun, runs, microtasks, eventHistory,
                snapshotHistory, clients, written>>
busVars == <<listeners, delivered, deliveries>>
contextVars == <<heap, thisSnapshot, handles>>
clockVars == <<now, eventIds>>
schemaVars == <<candidate, issues>>
storeVars == <<storeStatus, storeSnapshots, storeEvents, teardown, eventSource,
               reconnectTimer, healthChecks>>
classVars == <<contextVars, clockVars, schemaVars, storeVars>>
vars == <<fsmVars, bridgeVars, busVars, classVars>>

Null == <<>>
Some(x) == <<x>>

(***************************************************************************)
(* Bounds of the model.                                                    *)
(***************************************************************************)
MaxEvents == 8   \* bus events per run after which no service completes

(***************************************************************************)
(* Inputs: plans, guard configurations, directives.                        *)
(***************************************************************************)
\* a step is identified by the tool of its first toolSequence entry:
\* "echo" is registered, "ghost" is not, "none" is an empty toolSequence
RegisteredTools == {"echo"}

PlanSet ==
    { [steps |-> <<"echo">>, currentIndex |-> 0],
      [steps |-> <<"ghost">>, currentIndex |-> 0],
      [steps |-> <<"none">>, currentIndex |-> 0],
      [steps |-> <<"echo">>, currentIndex |-> 1] }

Directives ==
    {"complete", "abort", "replan", "await_user", "advance", "retry",
     "fallback"}

\* what a Reflector may resolve with: a ReflectionResult, with a directive
\* of the type or some other string, or nothing
ReflectionSet ==
    [directive : Directives \cup {"other"},
     plan : {p \in PlanSet : p.steps = <<"echo">>},
     message : {Null, Some("m")}]

GuardConfigs ==
    [maxIterations : {Null, Some(1), Some(2)},
     maxFailures : {Null, Some(1), Some(2)},
     maxDurationMs : {Null, Some("ms")}]

RootTrace == 0

(***************************************************************************)
(* agentActions.ts                                                         *)
(***************************************************************************)
\* resolveCurrentStep: the step and the index the plan points at, or nulls
resolveCurrentStep(plan) ==
    IF plan = Null
    THEN [step |-> Null, index |-> Null]
    ELSE LET p == plan[1]
             index == p.currentIndex
         IN IF index < 0 \/ index >= Len(p.steps)
            THEN [step |-> Null, index |-> Null]
            ELSE [step |-> Some(p.steps[index + 1]), index |-> Some(index)]

\* checkGuards throws: the duration or the iteration limit is exceeded
checkGuardsThrows(ctx) ==
    \/ /\ guardConfig.maxDurationMs # Null
       /\ expired
    \/ /\ guardConfig.maxIterations # Null
       /\ ctx.iterations >= guardConfig.maxIterations[1]

\* AgentContext.getSnapshot of the live context ac
getSnapshot(ac) == ac

\* storePlannerResult: output is the PlannerResult's plan, or null
storePlannerResult(ctx, ac, output) ==
    IF output = Null
    THEN [ctx EXCEPT !.executionResult = Null, !.observation = Null,
                     !.attempt = 0]
    ELSE LET r == resolveCurrentStep(output)
         IN [ctx EXCEPT !.masterPlan = output,
                        !.currentStep = r.step,
                        !.currentStepIndex = r.index,
                        !.executionResult = Null,
                        !.observation = Null,
                        !.attempt = 0,
                        !.snapshot = getSnapshot(ac)]

\* the live context after storePlannerResult
storePlannerResultContext(ac, output) ==
    IF output = Null THEN ac ELSE [ac EXCEPT !.masterPlan = output]

\* storeExecutionResult
storeExecutionResult(ctx, ac, output) ==
    [ctx EXCEPT !.executionResult = output, !.snapshot = getSnapshot(ac)]

\* deriveObservation: the live context after the entry action of observe
deriveObservationContext(ctx, ac) ==
    IF ctx.executionResult = Null
    THEN ac
    ELSE [ac EXCEPT !.observations =
             Append(@, [success |-> ctx.executionResult[1].success])]

\* deriveObservation: the machine context after the entry action of observe
deriveObservation(ctx, ac) ==
    IF ctx.executionResult = Null
    THEN [ctx EXCEPT !.observation = Null, !.snapshot = getSnapshot(ac)]
    ELSE [ctx EXCEPT
            !.observation = Some([success |-> ctx.executionResult[1].success]),
            !.snapshot = getSnapshot(deriveObservationContext(ctx, ac))]

\* commitReflectionResult: the live context
commitReflectionContext(ac, output) ==
    IF output = Null
    THEN ac
    ELSE LET r == output[1]
         IN [ac EXCEPT !.masterPlan = Some(r.plan),
                       !.workingMemory.reflectMessage =
                           IF r.message # Null THEN r.message ELSE @]

\* commitReflectionResult with an abort directive counted as a failure
commitReflectionResultCountsAbort(ctx, ac, output) ==
    IF output = Null
    THEN [ctx EXCEPT !.iterations = @ + 1, !.snapshot = getSnapshot(ac)]
    ELSE LET r == output[1]
             cur == resolveCurrentStep(Some(r.plan))
         IN [ctx EXCEPT
               !.masterPlan = Some(r.plan),
               !.currentStep = cur.step,
               !.currentStepIndex = cur.index,
               !.iterations = @ + 1,
               !.failures = IF r.directive = "abort" THEN @ + 1 ELSE @,
               !.snapshot = getSnapshot(commitReflectionContext(ac, output)),
               !.attempt = IF r.directive \in {"retry", "fallback"}
                           THEN @ + 1 ELSE 0]

\* commitReflectionResult with attempt reset by complete and abort alone
commitReflectionResultKeepsAttempt(ctx, ac, output) ==
    IF output = Null
    THEN [ctx EXCEPT !.iterations = @ + 1, !.snapshot = getSnapshot(ac)]
    ELSE LET r == output[1]
             cur == resolveCurrentStep(Some(r.plan))
         IN [ctx EXCEPT
               !.masterPlan = Some(r.plan),
               !.currentStep = cur.step,
               !.currentStepIndex = cur.index,
               !.iterations = @ + 1,
               !.snapshot = getSnapshot(commitReflectionContext(ac, output)),
               !.attempt = IF r.directive \in {"retry", "fallback"}
                           THEN @ + 1
                           ELSE IF r.directive \in {"complete", "abort"}
                                THEN 0 ELSE @]

\* commitReflectionResult: the machine context
commitReflectionResult(ctx, ac, output) ==
    IF output = Null
    THEN [ctx EXCEPT !.iterations = @ + 1, !.snapshot = getSnapshot(ac)]
    ELSE LET r == output[1]
             cur == resolveCurrentStep(Some(r.plan))
         IN [ctx EXCEPT
               !.masterPlan = Some(r.plan),
               !.currentStep = cur.step,
               !.currentStepIndex = cur.index,
               !.iterations = @ + 1,
               !.snapshot = getSnapshot(commitReflectionContext(ac, output)),
               !.attempt = IF r.directive \in {"retry", "fallback"}
                           THEN @ + 1 ELSE 0]

\* recordFailure: the message of the error event (event.data ?? event.error;
\* the services reject with an Error, whose message is taken)
failureMessage(event) ==
    IF "error" \in DOMAIN event THEN event.error.message
    ELSE "Unknown failure"

\* recordFailure: the live context
recordFailureContext(ac, message) ==
    [ac EXCEPT !.workingMemory.lastError = Some(message)]

\* recordFailure with lastSnapshot left as it was
recordFailureKeepsSnapshot(ctx, ac, message) ==
    [ctx EXCEPT !.failures = @ + 1]

\* recordFailure: the machine context
recordFailure(ctx, ac, message) ==
    [ctx EXCEPT !.failures = @ + 1,
                !.snapshot = getSnapshot(recordFailureContext(ac, message))]

(***************************************************************************)
(* AgentRuntime.ts: the events the runtime and the Executor emit            *)
(***************************************************************************)
\* emitAgentTransition
TransitionEvent(s) ==
    [type |-> IF s = "finish" THEN "agent.finished" ELSE "agent.transition",
     traceId |-> RootTrace, state |-> s, success |-> TRUE]

\* a generator that hands out the id it handed out before
nanoidReused == IF nanoidCount = 0 THEN 1 ELSE nanoidCount

\* nanoid(): an id no earlier call returned
nanoid == nanoidCount + 1

RequestEvent(traceId) ==
    [type |-> "tool.request", traceId |-> traceId, state |-> "act",
     success |-> TRUE]

ResultEvent(traceId, success) ==
    [type |-> "tool.result", traceId |-> traceId, state |-> "act",
     success |-> success]

(***************************************************************************)
(* createAgentMachine: entering a state                                    *)
(***************************************************************************)
DoneEvent(src, output) == Some([type |-> "done", src |-> src, output |-> output])
\* the error event of a rejected service: the Error thrown is named after
\* the call that threw it
ErrorEvent(src) ==
    Some([type |-> "error", src |-> src, output |-> Null,
          error |-> [message |-> src]])

\* plan: entry checkGuards, then invoke plannerService. A throw of the entry
\* action stops the actor with status error: the subscriber's error callback
\* rejects AgentRuntime.run and no transition is announced.
EnterPlan(ctx) ==
    /\ state' = "plan"
    /\ context' = ctx
    /\ settled' = Null
    /\ UNCHANGED nanoidCount
    /\ IF checkGuardsThrows(ctx)
       THEN /\ status' = "error"
            /\ call' = "none"
            /\ UNCHANGED events
       ELSE /\ status' = "active"
            /\ call' = "planner"
            /\ events' = Append(events, TransitionEvent("plan"))

\* the tool Executor.execute picks for the step, or null
toolIdOf(step) == IF step = "none" THEN Null ELSE Some(step)

\* execute failing early without the look-up in the tool registry
executeFailsEarlyUnlessCandidate(ctx) ==
    \/ ctx.masterPlan = Null
    \/ ctx.currentStepIndex = Null
    \/ ctx.currentStep = Null
    \/ toolIdOf(ctx.currentStep[1]) = Null

\* the executor service and Executor.execute up to its first await fail
executeFailsEarly(ctx) ==
    \/ ctx.masterPlan = Null
    \/ ctx.currentStepIndex = Null
    \/ ctx.currentStep = Null
    \/ toolIdOf(ctx.currentStep[1]) = Null
    \/ toolIdOf(ctx.currentStep[1])[1] \notin RegisteredTools

\* act: invoke executorService. The service runs up to the tool call (the
\* tool.request is on the bus) before the subscriber announces act.
EnterAct(ctx) ==
    /\ state' = "act"
    /\ context' = ctx
    /\ status' = "active"
    /\ IF executeFailsEarly(ctx)
       THEN /\ call' = "none"
            /\ settled' = ErrorEvent("executor")
            /\ events' = Append(events, TransitionEvent("act"))
            /\ UNCHANGED nanoidCount
       ELSE /\ call' = "tool"
            /\ settled' = Null
            /\ nanoidCount' = nanoid
            /\ events' = events \o <<RequestEvent(nanoid),
                                     TransitionEvent("act")>>

\* the reflector service fails before it calls the Reflector
reflectFailsEarly(ctx) == ctx.masterPlan = Null \/ ctx.currentStep = Null

\* reflect: the eventless transition to plan when there is no current step,
\* else invoke reflectorService
EnterReflect(ctx) ==
    IF ctx.currentStep = Null
    THEN EnterPlan(ctx)
    ELSE /\ state' = "reflect"
         /\ context' = ctx
         /\ status' = "active"
         /\ IF reflectFailsEarly(ctx)
            THEN call' = "none" /\ settled' = ErrorEvent("reflector")
            ELSE call' = "reflector" /\ settled' = Null
         /\ events' = Append(events, TransitionEvent("reflect"))
         /\ UNCHANGED nanoidCount

\* finish: final; the subscriber announces agent.finished and resolves run
EnterFinish(ctx) ==
    /\ state' = "finish"
    /\ context' = ctx
    /\ status' = "done"
    /\ call' = "none"
    /\ settled' = Null
    /\ events' = Append(events, TransitionEvent("finish"))
    /\ UNCHANGED nanoidCount

\* onError of an invoke: recordFailure, target error (left at once)
EnterError(event) ==
    /\ state' = "error"
    /\ context' = recordFailure(context, agentContext, failureMessage(event))
    /\ agentContext' = recordFailureContext(agentContext, failureMessage(event))
    /\ status' = "active"
    /\ call' = "none"
    /\ settled' = Null
    /\ UNCHANGED <<events, nanoidCount>>

\* the onDone transitions with await_user listed among the act directives
ReflectTargetAwaitUserActs(output) ==
    LET d == IF output = Null THEN "undefined" ELSE output[1].directive
    IN CASE d = "complete" -> "finish"
         [] d = "abort" -> "finish"
         [] d = "replan" -> "plan"
         [] d \in {"await_user", "advance", "retry", "fallback"} -> "act"
         [] OTHER -> "plan"

\* the target the onDone transitions of reflect select for a directive
ReflectTarget(output) ==
    LET d == IF output = Null THEN "undefined" ELSE output[1].directive
    IN CASE d = "complete" -> "finish"
         [] d = "abort" -> "finish"
         [] d = "replan" -> "plan"
         [] d = "await_user" -> "plan"
         [] d \in {"advance", "retry", "fallback"} -> "act"
         [] OTHER -> "plan"

\* the eventless transitions of error with failures <= maxFailures as limit
ErrorTargetInclusiveLimit(ctx) ==
    LET withinFailureLimit ==
            IF guardConfig.maxFailures = Null THEN TRUE
            ELSE ctx.failures <= guardConfig.maxFailures[1]
    IN IF ctx.currentStep = Null /\ withinFailureLimit THEN "plan"
       ELSE IF ctx.currentStep # Null /\ withinFailureLimit THEN "reflect"
       ELSE "finish"

\* the eventless transitions of error without the failure limit
ErrorTargetIgnoresLimit(ctx) ==
    IF ctx.currentStep = Null THEN "plan" ELSE "reflect"

\* the target the eventless transitions of error select
ErrorTarget(ctx) ==
    LET withinFailureLimit ==
            IF guardConfig.maxFailures = Null THEN TRUE
            ELSE ctx.failures < guardConfig.maxFailures[1]
    IN IF ctx.currentStep = Null /\ withinFailureLimit THEN "plan"
       ELSE IF ctx.currentStep # Null /\ withinFailureLimit THEN "reflect"
       ELSE "finish"

Enter(target, ctx) ==
    CASE target = "plan" -> EnterPlan(ctx)
      [] target = "act" -> EnterAct(ctx)
      [] target = "reflect" -> EnterReflect(ctx)
      [] target = "finish" -> EnterFinish(ctx)

(***************************************************************************)
(* The run of one agent: AgentRuntime.run and the machine's transitions     *)
(***************************************************************************)
\* the machine's initial context for a new AgentContext, which holds no
\* master plan, no observation and an empty working memory
InitialContext ==
    [masterPlan |-> Null, currentStep |-> Null, currentStepIndex |-> Null,
     executionResult |-> Null, observation |-> Null, attempt |-> 0,
     iterations |-> 0, failures |-> 0,
     snapshot |-> [masterPlan |-> Null,
                   workingMemory |-> [lastError |-> Null,
                                      reflectMessage |-> Null],
                   observations |-> <<>>]]

InitBridgeIdle ==
    /\ requests = <<>>
    /\ activeRun = Null
    /\ runs = <<>>
    /\ microtasks = <<>>
    /\ eventHistory = <<>>
    /\ snapshotHistory = <<>>
    /\ clients = {}
    /\ written = <<>>

InitBusIdle ==
    /\ listeners = <<>>
    /\ delivered = <<>>
    /\ deliveries = <<>>

\* the devpanel store as created, with no connection to the bridge
InitStoreIdle ==
    /\ storeStatus = "idle"
    /\ storeSnapshots = <<>>
    /\ storeEvents = <<>>
    /\ teardown = Null
    /\ eventSource = Null
    /\ reconnectTimer = FALSE
    /\ healthChecks = 0

InitClassIdle ==
    /\ heap = [tops |-> <<>>, tasks |-> <<>>, observations |-> <<>>,
               maps |-> <<>>]
    /\ thisSnapshot = 0
    /\ handles = <<>>
    /\ now = 0
    /\ eventIds = <<>>
    /\ candidate = Null
    /\ issues = Null
    /\ InitStoreIdle

InitRun ==
    /\ state = "plan"
    /\ status = "notStarted"
    /\ call = "none"
    /\ settled = Null
    /\ context = InitialContext
    /\ agentContext = InitialContext.snapshot
    /\ events = <<>>
    /\ nanoidCount = 0
    /\ expired = FALSE

Init ==
    /\ guardConfig \in GuardConfigs
    /\ budget = Some(MaxEvents)
    /\ InitRun
    /\ InitBridgeIdle
    /\ InitBusIdle
    /\ InitClassIdle

\* the machine is at rest in a state with an invoke
Running == status = "active" /\ state \notin {"observe", "error"}

\* the model follows a run while its event log is short
WithinBudget == IF budget = Null THEN TRUE ELSE Len(events) < budget[1]

\* the machine, at rest in state s, receives the event of kind type
Receives(s, type) ==
    /\ status = "active" /\ state = s
    /\ settled # Null /\ settled[1].type = type

\* the pending promise of service src settles with the event ev
Settles(src, ev) ==
    /\ Running /\ call = src
    /\ call' = "none"
    /\ settled' = ev
    /\ UNCHANGED <<guardConfig, state, status, context, agentContext, events,
                   nanoidCount, expired, budget, bridgeVars, busVars, classVars>>

\* actor.start(): the initial state plan is entered
Start ==
    /\ status = "notStarted"
    /\ EnterPlan(context)
    /\ UNCHANGED <<guardConfig, agentContext, expired, budget, bridgeVars, busVars, classVars>>

\* time passes while the run waits: maxDurationMs have elapsed
DurationElapses ==
    /\ status = "notStarted" \/ Running
    /\ guardConfig.maxDurationMs # Null
    /\ ~expired
    /\ expired' = TRUE
    /\ UNCHANGED <<guardConfig, state, status, call, settled, context,
                   agentContext, events, nanoidCount, budget, bridgeVars, busVars, classVars>>

\* config.planner.plan resolves with a PlannerResult, or with nothing
PlannerResolves(output) ==
    /\ WithinBudget
    /\ Settles("planner", DoneEvent("planner", output))

\* config.planner.plan throws
PlannerRejects ==
    /\ WithinBudget
    /\ Settles("planner", ErrorEvent("planner"))

\* plan.invoke.onDone
PlanOnDone ==
    /\ Receives("plan", "done")
    /\ agentContext' = storePlannerResultContext(agentContext, settled[1].output)
    /\ EnterAct(storePlannerResult(context, agentContext', settled[1].output))
    /\ UNCHANGED <<guardConfig, expired, budget, bridgeVars, busVars, classVars>>

\* plan.invoke.onError
PlanOnError ==
    /\ Receives("plan", "error")
    /\ EnterError(settled[1])
    /\ UNCHANGED <<guardConfig, expired, budget, bridgeVars, busVars, classVars>>

\* Executor.execute after the tool call returned: tool.result is emitted and
\* the ExecutionResult returned
ToolReturns(success) ==
    /\ Running /\ call = "tool"
    /\ events' = Append(events, ResultEvent(nanoidCount, success))
    /\ call' = "none"
    /\ settled' = DoneEvent("executor", Some([success |-> success]))
    /\ UNCHANGED <<guardConfig, state, status, context, agentContext,
                   nanoidCount, expired, budget, bridgeVars, busVars, classVars>>

\* the tool call threw: Executor.execute has no handler and rejects
ToolThrows ==
    /\ WithinBudget
    /\ Settles("tool", ErrorEvent("executor"))

\* act.invoke.onDone: storeExecutionResult; observe is entered
ActOnDone ==
    /\ Receives("act", "done")
    /\ LET stored == storeExecutionResult(context, agentContext,
                                          settled[1].output)
       IN /\ context' = deriveObservation(stored, agentContext)
          /\ agentContext' = deriveObservationContext(stored, agentContext)
    /\ state' = "observe"
    /\ call' = "none"
    /\ settled' = Null
    /\ UNCHANGED <<guardConfig, status, events, nanoidCount, expired,
                   budget, bridgeVars, busVars, classVars>>

\* act.invoke.onError
ActOnError ==
    /\ Receives("act", "error")
    /\ EnterError(settled[1])
    /\ UNCHANGED <<guardConfig, expired, budget, bridgeVars, busVars, classVars>>

\* observe.always
ObserveAlways ==
    /\ status = "active" /\ state = "observe"
    /\ EnterReflect(context)
    /\ UNCHANGED <<guardConfig, agentContext, expired, budget, bridgeVars, busVars, classVars>>

\* config.reflector.reflect resolves with a ReflectionResult, or with nothing
ReflectorResolves(output) ==
    /\ WithinBudget
    /\ Settles("reflector", DoneEvent("reflector", output))

\* config.reflector.reflect throws
ReflectorRejects ==
    /\ WithinBudget
    /\ Settles("reflector", ErrorEvent("reflector"))

\* reflect.invoke.onDone
ReflectOnDone ==
    /\ Receives("reflect", "done")
    /\ agentContext' = commitReflectionContext(agentContext, settled[1].output)
    /\ Enter(ReflectTarget(settled[1].output),
             commitReflectionResult(context, agentContext, settled[1].output))
    /\ UNCHANGED <<guardConfig, expired, budget, bridgeVars, busVars, classVars>>

\* reflect.invoke.onError
ReflectOnError ==
    /\ Receives("reflect", "error")
    /\ EnterError(settled[1])
    /\ UNCHANGED <<guardConfig, expired, budget, bridgeVars, busVars, classVars>>

\* error.always
ErrorAlways ==
    /\ status = "active" /\ state = "error"
    /\ Enter(ErrorTarget(context), context)
    /\ UNCHANGED <<guardConfig, agentContext, expired, budget, bridgeVars, busVars, classVars>>

PlannerOutputs == {Null} \cup {Some(p) : p \in PlanSet}
ReflectorOutputs == {Null} \cup {Some(r) : r \in ReflectionSet}

Next ==
    \/ Start
    \/ DurationElapses
    \/ \E output \in PlannerOutputs : PlannerResolves(output)
    \/ PlannerRejects
    \/ PlanOnDone
    \/ PlanOnError
    \/ \E success \in BOOLEAN : ToolReturns(success)
    \/ ToolThrows
    \/ ActOnDone
    \/ ActOnError
    \/ ObserveAlways
    \/ \E output \in ReflectorOutputs : ReflectorResolves(output)
    \/ ReflectorRejects
    \/ ReflectOnDone
    \/ ReflectOnError
    \/ ErrorAlways

Spec == Init /\ [][Next]_vars

(***************************************************************************)
(* Scenario "guard, iterations exceeded": only maxIterations = 3 is         *)
(* configured, the Planner always returns a valid plan, the Reflector       *)
(* always returns replan.  The guard itself bounds the run.                 *)
(***************************************************************************)
ValidPlanOutputs ==
    {Some(p) : p \in {q \in PlanSet : /\ resolveCurrentStep(Some(q)).step # Null
                                      /\ \A i \in 1..Len(q.steps) :
                                            q.steps[i] \in RegisteredTools}}

ReplanOutputs ==
    {Some(r) : r \in {q \in ReflectionSet : q.directive = "replan"}}

InitGuard ==
    /\ guardConfig = [maxIterations |-> Some(3), maxFailures |-> Null,
                      maxDurationMs |-> Null]
    /\ budget = Null
    /\ InitRun
    /\ InitBridgeIdle
    /\ InitBusIdle
    /\ InitClassIdle

NextGuard ==
    \/ Start
    \/ \E output \in ValidPlanOutputs : PlannerResolves(output)
    \/ PlanOnDone
    \/ \E success \in BOOLEAN : ToolReturns(success)
    \/ ToolThrows
    \/ ActOnDone
    \/ ActOnError
    \/ ObserveAlways
    \/ \E output \in ReplanOutputs : ReflectorResolves(output)
    \/ ReflectOnDone
    \/ ErrorAlways

SpecGuard == InitGuard /\ [][NextGuard]_vars

(***************************************************************************)
(* The machine with the STOP event (on: STOP: ".finish").  AgentRuntime.run *)
(* never sends it; here some holder of the actor does.                      *)
(***************************************************************************)
MaxStopEvents == 5   \* bus events per run after which no service completes

\* the machine accepts STOP only when the invoke of plan is not outstanding
StoppableWhenNoCall ==
    /\ status = "active" /\ state \in {"plan", "act", "reflect"}
    /\ call = "none"

\* the machine is at rest and takes the next event of its mailbox
Stoppable == status = "active" /\ state \in {"plan", "act", "reflect"}

\* STOP: the root transition to finish. The invoked service is stopped (its
\* done or error event is no longer delivered), the call it made goes on.
Stop ==
    /\ Stoppable
    /\ state' = "finish"
    /\ status' = "done"
    /\ settled' = Null
    /\ events' = Append(events, TransitionEvent("finish"))
    /\ UNCHANGED <<guardConfig, call, context, agentContext, nanoidCount,
                   expired, budget, bridgeVars, busVars, classVars>>

\* the tool call outstanding at STOP returns: Executor.execute goes on and
\* emits tool.result; nothing is delivered to the stopped actor
ToolReturnsLate(success) ==
    /\ status = "done" /\ call = "tool"
    /\ events' = Append(events, ResultEvent(nanoidCount, success))
    /\ call' = "none"
    /\ UNCHANGED <<guardConfig, state, status, settled, context, agentContext,
                   nanoidCount, expired, budget, bridgeVars, busVars, classVars>>

\* a call outstanding at STOP settles without a trace: the Planner or the
\* Reflector returns or throws, or the tool throws
CallSettlesLate ==
    /\ status = "done" /\ call # "none"
    /\ call' = "none"
    /\ UNCHANGED <<guardConfig, state, status, settled, context, agentContext,
                   events, nanoidCount, expired, budget, bridgeVars, busVars, classVars>>

InitStop ==
    /\ guardConfig \in GuardConfigs
    /\ budget = Some(MaxStopEvents)
    /\ InitRun
    /\ InitBridgeIdle
    /\ InitBusIdle
    /\ InitClassIdle

NextStop ==
    \/ Next
    \/ Stop
    \/ \E success \in BOOLEAN : ToolReturnsLate(success)
    \/ CallSettlesLate

SpecStop == InitStop /\ [][NextStop]_vars

(***************************************************************************)
(* Claims about the machine                                                *)
(***************************************************************************)
\* the run of AgentRuntime.run has settled: the actor has stopped
Stopped == status \in {"done", "error"}

\* the indices of the events of a type
EventsOfType(type) == {i \in 1..Len(events) : events[i].type = type}

\* the directive-to-target table of the specification
DirectiveTable(output) ==
    IF output = Null THEN "plan"
    ELSE CASE output[1].directive = "complete" -> "finish"
           [] output[1].directive = "abort" -> "finish"
           [] output[1].directive = "replan" -> "plan"
           [] output[1].directive = "await_user" -> "plan"
           [] output[1].directive = "advance" -> "act"
           [] output[1].directive = "retry" -> "act"
           [] output[1].directive = "fallback" -> "act"
           [] OTHER -> "plan"

\* C1: when the Reflector call made in reflect has returned, the state the
\* machine goes to is the one the directive table gives for the directive:
\* complete, abort -> finish; replan, await_user -> plan; advance, retry,
\* fallback -> act; any other or missing directive -> plan.
C1_DirectiveDecidesNextState ==
    [][(Receives("reflect", "done") /\ settled' # settled)
          => state' = DirectiveTable(settled[1].output)]_vars

\* a retry or fallback directive was committed and the machine is in act
C1_Witness ==
    /\ state = "act"
    /\ context.iterations = 1
    /\ context.attempt = 1

\* C2: every run reaches the terminal state finish: an actor that has
\* stopped (it takes no further transition) has stopped in finish.
C2_EveryRunReachesFinish ==
    Stopped => (state = "finish" /\ status = "done")

\* C3: a guard violation found by checkGuards on entry to plan takes the
\* path of a Planner failure: failures is incremented by one, lastError is
\* recorded, and the actor is not stopped (the run is not rejected).
C3_GuardViolationTakesErrorPath ==
    [][(/\ state' = "plan"
        /\ state # "plan" \/ status = "notStarted"
        /\ checkGuardsThrows(context'))
          => /\ status' = "active"
             /\ context'.failures = context.failures + 1
             /\ agentContext'.workingMemory.lastError # Null]_vars

\* C4: in the scenario (SpecGuard) the machine re-enters plan at most 3
\* times, and the run ends in finish with failures >= 1.
C4_IterationGuardEndsRunInFinish ==
    /\ Cardinality({i \in EventsOfType("agent.transition") :
                       events[i].state = "plan"}) <= 1 + 3
    /\ Stopped => /\ state = "finish" /\ status = "done"
                  /\ context.failures >= 1

\* where the specification routes the machine on leaving error
ErrorRoute ==
    LET unset == guardConfig.maxFailures = Null
        within == unset \/ context.failures < guardConfig.maxFailures[1]
    IN IF context.currentStep = Null /\ within THEN "plan"
       ELSE IF context.currentStep # Null /\ within THEN "reflect"
       ELSE "finish"

\* C5: on leaving error the next state is plan (no current step, within the
\* failure limit), reflect (a current step, within the limit) or finish; once
\* failures >= maxFailures every entry into error leads to finish.
C5_ErrorRouting ==
    [][state = "error"
          => /\ state' = ErrorRoute
             /\ (/\ guardConfig.maxFailures # Null
                 /\ context.failures >= guardConfig.maxFailures[1])
                   => state' = "finish"]_vars

\* error was left for finish because the failure limit was reached
C5_Witness ==
    /\ state = "finish"
    /\ guardConfig.maxFailures = Some(1)
    /\ context.failures = 1

\* C9: when the tool's execute throws, Executor.execute still returns an
\* ExecutionResult with success = false: the executor service resolves, a
\* tool.result is on the bus and failures is not incremented.
C9_ToolExceptionBecomesFailedResult ==
    [][(call = "tool" /\ call' = "none")
          => /\ settled' # Null
             /\ settled'[1].type = "done"
             /\ Len(events') = Len(events) + 1]_vars

\* C10: each tool.result carries the traceId of exactly one tool.request
\* emitted earlier, and no two tool.request events share a traceId.
C10_TracePairing ==
    /\ \A i \in EventsOfType("tool.result") :
          Cardinality({j \in EventsOfType("tool.request") :
                          j < i /\ events[j].traceId = events[i].traceId}) = 1
    /\ \A i, j \in EventsOfType("tool.request") :
          i # j => events[i].traceId # events[j].traceId

\* a step was executed twice (a retry): two requests, each with its result
C10_Witness ==
    /\ Cardinality(EventsOfType("tool.request")) = 2
    /\ Cardinality(EventsOfType("tool.result")) = 2
    /\ context.attempt = 1

\* the tool.result events that answer the tool.request at index i
ResultsOf(i) ==
    {j \in EventsOfType("tool.result") :
        j > i /\ events[j].traceId = events[i].traceId}

\* C11: every tool.request is followed by exactly one tool.result with its
\* traceId, emitted before the machine leaves act, whatever the tool does:
\* no request has two results, and once the machine is out of act every
\* request has its result.
C11_EveryRequestHasItsResult ==
    /\ \A i \in EventsOfType("tool.request") : Cardinality(ResultsOf(i)) <= 1
    /\ state # "act" =>
          \A i \in EventsOfType("tool.request") : Cardinality(ResultsOf(i)) = 1

\* C12: when the Reflector returns abort with a message m, the run ends in
\* finish and the working memory of the final snapshot holds abortReason = m.
C12_AbortRecordsReason ==
    [][(/\ Receives("reflect", "done")
        /\ settled' # settled
        /\ IF settled[1].output = Null THEN FALSE
           ELSE /\ settled[1].output[1].directive = "abort"
                /\ settled[1].output[1].message # Null)
          => /\ state' = "finish" /\ status' = "done"
             /\ "abortReason" \in DOMAIN context'.snapshot.workingMemory
             /\ context'.snapshot.workingMemory.abortReason
                   = settled[1].output[1].message[1]]_vars

\* C13: failures changes only when the error of a Planner, Executor or
\* Reflector call is handled, and then by one; no Reflector directive changes
\* it, and a tool result (success or not) leads from act to observe and
\* from there to reflect with failures as it was.
C13_FailuresCountOnlyExceptions ==
    [][/\ context'.failures # context.failures
          => /\ settled # Null /\ settled[1].type = "error"
             /\ context'.failures = context.failures + 1
       /\ (Receives("act", "done") /\ settled' # settled)
          => state' = "observe"
       /\ (status = "active" /\ state = "observe") => state' = "reflect"]_vars

\* a tool result with success = false reached reflect and an abort was
\* committed, with no failure counted
C13_Witness ==
    /\ state = "finish"
    /\ context.observation = Some([success |-> FALSE])
    /\ context.iterations = 1
    /\ context.failures = 0

\* C14: every state the machine enters is announced: the step that enters a
\* state ends with the agent.transition (agent.finished for finish) event of
\* that state on the bus, the transient states observe and error included.
C14_EveryStateEntryAnnounced ==
    [][state' # state
          => /\ Len(events') > Len(events)
             /\ events'[Len(events')] = TransitionEvent(state')]_vars

\* C15: in the single-step happy path (one-step plan, tool success, directive
\* complete as the first reflection of a run without failure) the run ends in
\* finish with iterations = 1, lastObservation.success = true and exactly the
\* events agent.transition(plan), tool.request, tool.result(success),
\* agent.transition(act), (observe), (reflect), agent.finished.
C15_HappyPathEvents ==
    [][(/\ Receives("reflect", "done")
        /\ settled' # settled
        /\ context.iterations = 0 /\ context.failures = 0
        /\ context.observation = Some([success |-> TRUE])
        /\ IF settled[1].output = Null THEN FALSE
           ELSE settled[1].output[1].directive = "complete")
          => /\ state' = "finish" /\ status' = "done"
             /\ context'.iterations = 1
             /\ context'.observation = Some([success |-> TRUE])
             /\ events' = <<TransitionEvent("plan"), RequestEvent(1),
                            ResultEvent(1, TRUE), TransitionEvent("act"),
                            TransitionEvent("observe"),
                            TransitionEvent("reflect"),
                            TransitionEvent("finish")>>]_vars

\* the machine rests in a state that is not final
NonTerminalAtRest == status = "active" /\ state \in {"plan", "act", "reflect"}

\* C16: in every non-terminal state the machine rests in, with or without a
\* Planner, tool or Reflector call outstanding, STOP is taken and leads to
\* finish; once in finish nothing (a STOP, the late completion of a call)
\* changes the state, the counters or the context.
C16_StopLeadsToFinishForGood ==
    /\ [](NonTerminalAtRest => ENABLED Stop)
    /\ [][/\ (NonTerminalAtRest /\ status' = "done") => state' = "finish"
          /\ state = "finish"
                => /\ state' = "finish" /\ status' = "done"
                   /\ context' = context
                   /\ agentContext' = agentContext]_vars

\* STOP was taken while the Reflector call was outstanding, and that call
\* has completed since
C16_Witness ==
    /\ state = "finish" /\ call = "none"
    /\ context.iterations = 0
    /\ context.observation # Null
    /\ events[Len(events) - 1] = TransitionEvent("reflect")

\* C17: the machine enters finish only after the outstanding call has
\* completed: in finish no call is outstanding, and no tool.result is
\* emitted after agent.finished.
C17_FinishWaitsForOutstandingCall ==
    /\ state = "finish" => call = "none"
    /\ \A i \in EventsOfType("agent.finished"), j \in EventsOfType("tool.result") :
          j < i

\* C20: whenever the machine is in act or in reflect, masterPlan is not null
\* and its currentIndex points at a step (currentStep is not null).
C20_PointerValidInActAndReflect ==
    (status = "active" /\ state \in {"act", "reflect"})
        => /\ context.masterPlan # Null
           /\ context.currentStep # Null
           /\ resolveCurrentStep(context.masterPlan).step = context.currentStep

(***************************************************************************)
(* The devpanel bridge (startDevpanelBridge): POST /run and GET /events.    *)
(* The runs it starts are followed by what they put on the runtime's        *)
(* streams and by how their promise settles: a snapshot and an agent event  *)
(* when a state is announced (the first and the last state of a run are     *)
(* followed), an event alone when the Executor emits a tool event.  The     *)
(* traceId of an agent event is the root task of its run.                   *)
(***************************************************************************)
MaxRequests == 3         \* POST /run requests followed (RunSpec)
MaxStreamRequests == 2   \* POST /run requests followed (BridgeSpec)
MaxClients == 2          \* SSE clients connected at a time
MaxBusEvents == 1        \* tool events followed

\* the guard the bridge configures its runtime with
BridgeGuard ==
    [maxIterations |-> Some(20), maxFailures |-> Some(5),
     maxDurationMs |-> Some("ms")]

\* writeSse: one SSE message on the response out
writeSse(out, event, payload) == Append(out, [event |-> event, data |-> payload])

\* broadcast with every client written to twice
broadcastTwice(w, event, payload) ==
    [c \in clients |-> writeSse(writeSse(w[c], event, payload), event, payload)]

\* broadcast: the message is written to every live client
broadcast(w, event, payload) ==
    [c \in clients |-> writeSse(w[c], event, payload)]

\* the replay with the buffered events written before the buffered snapshots
ReplayEventsFirst(sh, eh) ==
    [i \in 1..(Len(eh) + Len(sh)) |->
        IF i <= Len(eh) THEN [event |-> "bus-event", data |-> eh[i]]
        ELSE [event |-> "snapshot", data |-> sh[i - Len(eh)]]]

\* GET /events: the buffered snapshots, then the buffered events
Replay(sh, eh) ==
    [i \in 1..(Len(sh) + Len(eh)) |->
        IF i <= Len(sh) THEN [event |-> "snapshot", data |-> sh[i]]
        ELSE [event |-> "bus-event", data |-> eh[i - Len(sh)]]]

\* the snapshot AgentRuntime.run publishes for run r
RunSnapshot(r) == [rootTaskId |-> r]

\* the agent event AgentRuntime.run emits for run r on reaching state s
RunEvent(r, s) == [TransitionEvent(s) EXCEPT !.traceId = r]

\* the events$ subscription: the bus event e is buffered and broadcast
OnBusEvent(w, e) ==
    /\ events' = Append(events, e)
    /\ eventHistory' = Append(eventHistory, e)
    /\ written' = broadcast(w, "bus-event", e)

\* the subscriber of AgentRuntime.run on a state of run r: the snapshot is
\* published (buffered and broadcast by the snapshots$ subscription), then
\* the agent event is emitted
Announce(r, s) ==
    /\ snapshotHistory' = Append(snapshotHistory, RunSnapshot(r))
    /\ OnBusEvent(broadcast(written, "snapshot", RunSnapshot(r)), RunEvent(r, s))

bridgeIdle == <<guardConfig, state, status, call, settled, context,
                agentContext, expired, budget>>

InitBridge ==
    /\ guardConfig = BridgeGuard
    /\ budget = Null
    /\ InitRun
    /\ InitBridgeIdle
    /\ InitBusIdle
    /\ InitClassIdle

\* no continuation is queued: the event loop takes the next task
LoopIdle == microtasks = <<>>

\* the model follows a further tool event
EmitsMore ==
    Cardinality({i \in 1..Len(events) : events[i].type = "tool.request"})
        < MaxBusEvents

RunIds == 1..Len(runs)
RequestIds == 1..Len(requests)
PendingRuns == {r \in RunIds : runs[r].status = "pending"}

\* a POST /run arrives: the handler runs up to its await of readJson
Arrive(limit) ==
    /\ LoopIdle
    /\ Len(requests) < limit
    /\ requests' = Append(requests, [pc |-> "readJson", on |-> Null])
    /\ UNCHANGED <<fsmVars, busVars, classVars, activeRun, runs, microtasks, eventHistory,
                   snapshotHistory, clients, written>>

\* activeRun = runtime.run(...); await activeRun: the actor starts, plan is
\* announced, and the handler of request q waits for its own run
StartRun(q) ==
    LET r == Len(runs) + 1
    IN /\ runs' = Append(runs, [status |-> "pending", waiters |-> <<q>>])
       /\ activeRun' = Some(r)
       /\ requests' = [requests EXCEPT ![q] = [pc |-> "awaitOwn", on |-> Some(r)]]
       /\ Announce(r, "plan")
       /\ UNCHANGED <<nanoidCount, clients>>

\* leaving the handler of request q through its catch block
Catch(q) ==
    /\ activeRun' = Null
    /\ requests' = [requests EXCEPT ![q] = [pc |-> "failed", on |-> Null]]
    /\ UNCHANGED <<events, nanoidCount, runs, eventHistory, snapshotHistory,
                   clients, written>>

\* readJson resolved for request q: with a run active the handler waits for
\* it, else it starts its run
BodyRead(q) ==
    /\ LoopIdle
    /\ requests[q].pc = "readJson"
    /\ IF activeRun # Null
       THEN LET r == activeRun[1]
            IN /\ requests' = [requests EXCEPT
                                  ![q] = [pc |-> "awaitPrior", on |-> activeRun]]
               /\ IF runs[r].status = "pending"
                  THEN /\ runs' = [runs EXCEPT ![r].waiters = Append(@, q)]
                       /\ UNCHANGED microtasks
                  ELSE /\ microtasks' = Append(microtasks, q)
                       /\ UNCHANGED runs
               /\ UNCHANGED <<events, nanoidCount, activeRun, eventHistory,
                              snapshotHistory, clients, written>>
       ELSE /\ StartRun(q)
            /\ UNCHANGED microtasks
    /\ UNCHANGED <<bridgeIdle, busVars, classVars, busVars>>

\* readJson rejected for request q (the body is not JSON)
BodyFails(q) ==
    /\ LoopIdle
    /\ requests[q].pc = "readJson"
    /\ Catch(q)
    /\ UNCHANGED <<bridgeIdle, busVars, classVars, microtasks>>

\* the Executor of run r in progress emits a tool event
RunEmitsToolEvent(r) ==
    /\ LoopIdle
    /\ r \in PendingRuns
    /\ EmitsMore
    /\ nanoidCount' = nanoid
    /\ OnBusEvent(written, RequestEvent(nanoid))
    /\ UNCHANGED <<bridgeIdle, busVars, classVars, requests, activeRun, runs, microtasks,
                   snapshotHistory, clients>>

\* run r reaches finish: it is announced and the promise resolves; the
\* handlers waiting for it are resumed in the order they began to wait
RunResolves(r) ==
    /\ LoopIdle
    /\ r \in PendingRuns
    /\ Announce(r, "finish")
    /\ runs' = [runs EXCEPT ![r].status = "resolved"]
    /\ microtasks' = runs[r].waiters
    /\ UNCHANGED <<bridgeIdle, busVars, classVars, nanoidCount, requests, activeRun, clients>>

\* the actor of run r stops with an error: the promise rejects
RunRejects(r) ==
    /\ LoopIdle
    /\ r \in PendingRuns
    /\ runs' = [runs EXCEPT ![r].status = "rejected"]
    /\ microtasks' = runs[r].waiters
    /\ UNCHANGED <<fsmVars, busVars, classVars, requests, activeRun, eventHistory,
                   snapshotHistory, clients, written>>

\* the handler at the head of the queue resumes after await activeRun of an
\* earlier request's run: it starts its own run without looking at activeRun
\* again, or leaves through catch when the run it waited for rejected
PriorSettled ==
    /\ microtasks # <<>>
    /\ LET q == Head(microtasks)
       IN /\ requests[q].pc = "awaitPrior"
          /\ IF runs[requests[q].on[1]].status = "rejected"
             THEN Catch(q)
             ELSE StartRun(q)
    /\ microtasks' = Tail(microtasks)
    /\ UNCHANGED <<bridgeIdle, busVars, classVars, busVars>>

\* the handler at the head of the queue resumes after await of its own run:
\* activeRun = null, and the response is sent
OwnSettled ==
    /\ microtasks # <<>>
    /\ LET q == Head(microtasks)
       IN /\ requests[q].pc = "awaitOwn"
          /\ IF runs[requests[q].on[1]].status = "rejected"
             THEN Catch(q)
             ELSE /\ activeRun' = Null
                  /\ requests' = [requests EXCEPT
                                     ![q] = [pc |-> "ok", on |-> Null]]
                  /\ UNCHANGED <<events, nanoidCount, runs, eventHistory,
                                 snapshotHistory, clients, written>>
    /\ microtasks' = Tail(microtasks)
    /\ UNCHANGED <<bridgeIdle, busVars, classVars, busVars>>

\* GET /events on a new response res: the replay is written, then the
\* client joins the live set
Connect ==
    /\ LoopIdle
    /\ Cardinality(clients) < MaxClients
    /\ LET res == CHOOSE c \in 1..MaxClients :
                      c \notin clients /\ \A d \in 1..(c - 1) : d \in clients
       IN /\ written' = [c \in clients \cup {res} |->
                            IF c = res THEN Replay(snapshotHistory, eventHistory)
                            ELSE written[c]]
          /\ clients' = clients \cup {res}
    /\ UNCHANGED <<fsmVars, busVars, classVars, requests, activeRun, runs, microtasks,
                   eventHistory, snapshotHistory>>

\* the connection of client c closes: the response is gone
Close(c) ==
    /\ LoopIdle
    /\ c \in clients
    /\ clients' = clients \ {c}
    /\ written' = [d \in clients \ {c} |-> written[d]]
    /\ UNCHANGED <<fsmVars, busVars, classVars, requests, activeRun, runs, microtasks,
                   eventHistory, snapshotHistory>>

\* the POST /run handlers and the runs they start
NextRun ==
    \/ Arrive(MaxRequests)
    \/ \E q \in RequestIds : BodyRead(q)
    \/ \E q \in RequestIds : BodyFails(q)
    \/ \E r \in RunIds : RunResolves(r)
    \/ \E r \in RunIds : RunRejects(r)
    \/ PriorSettled
    \/ OwnSettled

RunSpec == InitBridge /\ [][NextRun]_vars

\* the bridge with its SSE clients
NextBridge ==
    \/ Arrive(MaxStreamRequests)
    \/ \E q \in RequestIds : BodyRead(q)
    \/ \E q \in RequestIds : BodyFails(q)
    \/ \E r \in RunIds : RunEmitsToolEvent(r)
    \/ \E r \in RunIds : RunResolves(r)
    \/ \E r \in RunIds : RunRejects(r)
    \/ PriorSettled
    \/ OwnSettled
    \/ Connect
    \/ \E c \in clients : Close(c)

BridgeSpec == InitBridge /\ [][NextBridge]_vars

(***************************************************************************)
(* Claims about the bridge                                                 *)
(***************************************************************************)
\* the payloads of the messages of one kind written to a response
PayloadsOf(out, event) ==
    LET sel == SelectSeq(out, LAMBDA m : m.event = event)
    IN [i \in 1..Len(sel) |-> sel[i].data]

\* C6: whatever POST /run requests overlap and however earlier ones end, at
\* most one AgentRuntime.run is in progress at any time (RunSpec).
C6_AtMostOneRunInProgress == Cardinality(PendingRuns) <= 1

\* C7: the bus-event messages written to a live SSE client are exactly the
\* bus events emitted since process start, in order, none missing and none
\* twice.
C7_ClientSeesEveryBusEventOnce ==
    \A c \in clients : PayloadsOf(written[c], "bus-event") = events

\* a client was replayed two announced states and then received a live one
C7_Witness ==
    \E c \in clients :
        /\ Len(written[c]) >= 6
        /\ written[c][1].event = "snapshot"
        /\ written[c][2].event = "snapshot"
        /\ written[c][Len(written[c]) - 1].event = "snapshot"

\* the messages the streams' subscriptions broadcast in one step: the
\* snapshot published, then the bus event emitted
Broadcasts ==
    Replay(SubSeq(snapshotHistory', Len(snapshotHistory) + 1, Len(snapshotHistory')),
           SubSeq(eventHistory', Len(eventHistory) + 1, Len(eventHistory')))

\* C8: a new /events connection is written all buffered snapshots, then all
\* buffered bus events, and only then is in the live set; from then on it is
\* written each snapshot and each bus event as it is emitted, in order.
C8_ReplaySnapshotsThenEventsThenLive ==
    [][\A c \in clients' :
          IF c \notin clients
          THEN written'[c] = Replay(snapshotHistory, eventHistory)
          ELSE written'[c] = written[c] \o Broadcasts]_vars

\* two clients are live: one was written two announced states live, the
\* other was replayed them, both snapshots first
C8_Witness ==
    \E c, d \in clients :
        /\ Len(written[c]) = Len(written[d]) /\ written[c] # written[d]
        /\ written[c][2].event = "bus-event"
        /\ written[d][1].event = "snapshot"
        /\ written[d][2].event = "snapshot"
        /\ written[d][3].event = "bus-event"

(***************************************************************************)
(* The EventBus: emit hands the event to the handlers attached to the       *)
(* emitter, one after the other and within the call; events() attaches a    *)
(* handler on subscription and detaches it on unsubscription.  A handler    *)
(* may itself emit, subscribe or unsubscribe while it runs.                 *)
(***************************************************************************)
MaxEmits == 3         \* events emitted on the bus
MaxSubscribers == 2   \* subscriptions made to events()

\* a subscription that is first handed the events emitted so far
subscribeWithHistory(evs) == [since |-> Len(evs), got |-> evs]

\* events(): a new subscription, made when evs have been emitted: nothing
\* has been received
subscribe(evs) == [since |-> Len(evs), got |-> <<>>]

SubscriberIds == 1..Len(delivered)
Attached == {listeners[i] : i \in 1..Len(listeners)}

\* the emit call whose handlers are being run
Innermost == deliveries[Len(deliveries)]

\* code may run: a task when no emit is in progress, else the handler the
\* innermost emit has called
CanAct == IF deliveries = <<>> THEN TRUE ELSE Innermost.at # Null

InitBus ==
    /\ guardConfig = BridgeGuard
    /\ budget = Null
    /\ InitRun
    /\ InitBridgeIdle
    /\ InitBusIdle
    /\ InitClassIdle

\* EventBus.emit: the call begins; the handlers attached now will be called
BusEmit ==
    /\ CanAct
    /\ Len(events) < MaxEmits
    /\ nanoidCount' = nanoid
    /\ events' = Append(events, RequestEvent(nanoid))
    /\ deliveries' = Append(deliveries, [event |-> RequestEvent(nanoid),
                                         queue |-> listeners, at |-> Null])
    /\ UNCHANGED <<guardConfig, state, status, call, settled, context,
                   agentContext, expired, budget, bridgeVars, classVars,
                   listeners, delivered>>

\* the innermost emit calls its next handler: subscriber.next(event), which
\* does nothing once the subscription is closed
Deliver ==
    /\ deliveries # <<>>
    /\ Innermost.queue # <<>>
    /\ LET l == Head(Innermost.queue)
           open == l \in Attached
       IN /\ deliveries' = [deliveries EXCEPT
                               ![Len(deliveries)].queue = Tail(@),
                               ![Len(deliveries)].at =
                                   IF open THEN Some(l) ELSE Null]
          /\ delivered' = IF open
                          THEN [delivered EXCEPT
                                  ![l].got = Append(@, Innermost.event)]
                          ELSE delivered
    /\ UNCHANGED <<fsmVars, bridgeVars, classVars, listeners>>

\* the innermost emit has called every handler and returns
EmitReturns ==
    /\ deliveries # <<>>
    /\ Innermost.queue = <<>>
    /\ deliveries' = SubSeq(deliveries, 1, Len(deliveries) - 1)
    /\ UNCHANGED <<fsmVars, bridgeVars, classVars, listeners, delivered>>

\* events().subscribe(...): a handler is attached
BusSubscribe ==
    /\ CanAct
    /\ Len(delivered) < MaxSubscribers
    /\ listeners' = Append(listeners, Len(delivered) + 1)
    /\ delivered' = Append(delivered, subscribe(events))
    /\ UNCHANGED <<fsmVars, bridgeVars, classVars, deliveries>>

\* subscription.unsubscribe(): the handler of l is detached
BusUnsubscribe(l) ==
    /\ CanAct
    /\ l \in Attached
    /\ listeners' = SelectSeq(listeners, LAMBDA x : x # l)
    /\ UNCHANGED <<fsmVars, bridgeVars, classVars, delivered, deliveries>>

NextBus ==
    \/ BusEmit
    \/ Deliver
    \/ EmitReturns
    \/ BusSubscribe
    \/ \E l \in SubscriberIds : BusUnsubscribe(l)

BusSpec == InitBus /\ [][NextBus]_vars

(***************************************************************************)
(* Claims about the EventBus                                               *)
(***************************************************************************)
\* the position of the event e in the order of emission
EmissionIndex(e) == CHOOSE k \in 1..Len(events) : events[k] = e

\* C18: whatever emits, subscribes and unsubscribes, from tasks or from
\* inside handlers, a subscriber that receives two events receives them in
\* the order of their emission.
C18_DeliveryInEmissionOrder ==
    \A s \in SubscriberIds :
        \A i, j \in 1..Len(delivered[s].got) :
            i < j => EmissionIndex(delivered[s].got[i])
                        < EmissionIndex(delivered[s].got[j])

MaxObjects == 4     \* AgentContextSnapshot objects allocated

TaskIds == {"root", "t1"}
NoTasks == [id \in {} |-> Null]
EmptyMap == [key \in {} |-> 0]

\* {...a, ...b} of two objects
Spread(a, b) ==
    [key \in DOMAIN a \cup DOMAIN b |-> IF key \in DOMAIN b THEN b[key] ELSE a[key]]

\* the rootTask options of the constructor: children and parentId are
\* optional
RootTaskOptions ==
    [taskId : {"root"}, parentId : {Null, Some("t1")},
     children : {Null, Some(<<"t1">>)}]

\* the TaskNode arguments of upsertTask; children may be left out
TaskNodes ==
    [taskId : TaskIds, parentId : {Null, Some("root")},
     children : {Null, Some(<<"t1">>)}]

\* the AgentContextUpdate arguments of patch; a field that is absent is
\* null, a field that is present holds its value
NoUpdate ==
    [activeTaskId |-> Null, tasks |-> Null, observations |-> Null,
     workingMemory |-> Null, metadata |-> Null, iteration |-> Null,
     masterPlan |-> Null]

\* the updates of one field other than iteration
FieldUpdates ==
    {[NoUpdate EXCEPT !.activeTaskId = Some(Null)],
     [NoUpdate EXCEPT !.activeTaskId = Some(Some("t1"))],
     [NoUpdate EXCEPT !.tasks = Some(NoTasks)],
     [NoUpdate EXCEPT !.tasks =
         Some([id \in {"t1"} |-> [taskId |-> "t1", parentId |-> Null,
                                  children |-> <<>>]])],
     [NoUpdate EXCEPT !.observations = Some(<<>>)],
     [NoUpdate EXCEPT !.workingMemory = Some([k |-> 2])],
     [NoUpdate EXCEPT !.metadata = Some([k |-> 1])],
     [NoUpdate EXCEPT !.masterPlan = Some("plan")]}

\* the updates the context is patched with: of no field or one, and with or
\* without an explicit iteration
Updates ==
    {[update EXCEPT !.iteration = iteration] :
        update \in FieldUpdates \cup {NoUpdate}, iteration \in {Null, Some(0)}}

\* the updates that replace an object the context refers to
ReplacingUpdates ==
    {update \in FieldUpdates :
        \/ update.tasks = Some(NoTasks)
        \/ update.observations # Null
        \/ update.workingMemory # Null}

\* the heap h with one more object of the given kind
AllocTop(h, top) == [h EXCEPT !.tops = Append(@, top)]
AllocTasks(h, tasks) == [h EXCEPT !.tasks = Append(@, tasks)]
AllocObservations(h, obs) == [h EXCEPT !.observations = Append(@, obs)]
AllocMap(h, map) == [h EXCEPT !.maps = Append(@, map)]

\* what is read through the AgentContextSnapshot object at address a
View(h, a) ==
    LET top == h.tops[a]
    IN [rootTaskId |-> top.rootTaskId,
        activeTaskId |-> top.activeTaskId,
        iteration |-> top.iteration,
        masterPlan |-> top.masterPlan,
        tasks |-> h.tasks[top.tasks],
        observations |-> h.observations[top.observations],
        workingMemory |-> h.maps[top.workingMemory],
        metadata |-> h.maps[top.metadata]]

\* a copy of the object at a that copies the object alone: its tasks,
\* observations, workingMemory and metadata are those of the original
shallowClone(h, a) == AllocTop(h, h.tops[a])

\* deepClone: a copy of the object at a and of every object it refers to
deepClone(h, a) ==
    LET top == h.tops[a]
        copy == [top EXCEPT !.tasks = Len(h.tasks) + 1,
                            !.observations = Len(h.observations) + 1,
                            !.workingMemory = Len(h.maps) + 1,
                            !.metadata = Len(h.maps) + 2]
    IN AllocTop(
         AllocMap(
           AllocMap(
             AllocObservations(
               AllocTasks(h, h.tasks[top.tasks]),
               h.observations[top.observations]),
             h.maps[top.workingMemory]),
           h.maps[top.metadata]),
         copy)

\* constructor: the context of an agent whose root task is as given
InitContext ==
    /\ guardConfig = BridgeGuard
    /\ budget = Null
    /\ InitRun
    /\ InitBridgeIdle
    /\ InitBusIdle
    /\ \E rootTask \in RootTaskOptions :
          LET task == [taskId |-> rootTask.taskId,
                       parentId |-> rootTask.parentId,
                       children |-> IF rootTask.children = Null THEN <<>>
                                    ELSE rootTask.children[1]]
          IN heap = [tops |-> <<[rootTaskId |-> rootTask.taskId,
                                 activeTaskId |-> Some(rootTask.taskId),
                                 iteration |-> 0,
                                 masterPlan |-> Null,
                                 tasks |-> 1, observations |-> 1,
                                 workingMemory |-> 1, metadata |-> 2]>>,
                     tasks |-> <<[id \in {rootTask.taskId} |-> task]>>,
                     observations |-> <<<<>>>>,
                     maps |-> <<EmptyMap, EmptyMap>>]
    /\ thisSnapshot = 1
    /\ handles = <<>>
    /\ InitStoreIdle
    /\ now = 0
    /\ eventIds = <<>>
    /\ candidate = Null
    /\ issues = Null

\* an operation of the context may allocate its new snapshot object
MayAllocate == Len(heap.tops) < MaxObjects

\* this.snapshot = top, for a new object top
Assign(h, top) ==
    /\ heap' = AllocTop(h, top)
    /\ thisSnapshot' = Len(h.tops) + 1
    /\ UNCHANGED <<fsmVars, bridgeVars, busVars, storeVars, clockVars, schemaVars, handles>>

\* getSnapshot
GetSnapshot ==
    /\ MayAllocate
    /\ heap' = deepClone(heap, thisSnapshot)
    /\ handles' = Append(handles, Len(heap.tops) + 1)
    /\ UNCHANGED <<fsmVars, bridgeVars, busVars, storeVars, clockVars, schemaVars, thisSnapshot>>

\* setActiveTask(taskId)
SetActiveTask(taskId) ==
    /\ MayAllocate
    /\ Assign(heap, [heap.tops[thisSnapshot] EXCEPT
                        !.activeTaskId = taskId,
                        !.iteration = @ + 1])

\* upsertTask(task)
UpsertTask(task) ==
    /\ MayAllocate
    /\ LET top == heap.tops[thisSnapshot]
           tasks == heap.tasks[top.tasks]
           existing == IF task.taskId \in DOMAIN tasks
                       THEN Some(tasks[task.taskId]) ELSE Null
           normalized ==
               [taskId |-> task.taskId,
                parentId |-> task.parentId,
                children |-> IF task.children # Null THEN task.children[1]
                             ELSE IF existing # Null THEN existing[1].children
                             ELSE <<>>]
       IN Assign(AllocTasks(heap, Spread(tasks,
                                [id \in {task.taskId} |-> normalized])),
                 [top EXCEPT !.tasks = Len(heap.tasks) + 1])

\* linkChild(parentId, childId)
LinkChild(parentId, childId) ==
    /\ MayAllocate
    /\ LET top == heap.tops[thisSnapshot]
           tasks == heap.tasks[top.tasks]
       IN /\ parentId \in DOMAIN tasks
          /\ \A i \in 1..Len(tasks[parentId].children) :
                tasks[parentId].children[i] # childId
          /\ Assign(AllocTasks(heap,
                      [tasks EXCEPT ![parentId].children = Append(@, childId)]),
                    [top EXCEPT !.tasks = Len(heap.tasks) + 1])

\* addObservation(observation)
AddObservation ==
    /\ MayAllocate
    /\ LET top == heap.tops[thisSnapshot]
           observations == heap.observations[top.observations]
       IN Assign(AllocObservations(heap, Append(observations, "observation")),
                 [top EXCEPT !.observations = Len(heap.observations) + 1])

\* mergeWorkingMemory(memory)
MergeWorkingMemory(memory) ==
    /\ MayAllocate
    /\ LET top == heap.tops[thisSnapshot]
       IN Assign(AllocMap(heap, Spread(heap.maps[top.workingMemory], memory)),
                 [top EXCEPT !.workingMemory = Len(heap.maps) + 1])

\* patch(update)
Patch(update) ==
    /\ MayAllocate
    /\ LET top == heap.tops[thisSnapshot]
           h1 == AllocMap(heap,
                    Spread(heap.maps[top.workingMemory],
                           IF update.workingMemory = Null THEN EmptyMap
                           ELSE update.workingMemory[1]))
           h2 == AllocMap(h1,
                    Spread(heap.maps[top.metadata],
                           IF update.metadata = Null THEN EmptyMap
                           ELSE update.metadata[1]))
           h3 == IF update.observations = Null THEN h2
                 ELSE AllocObservations(h2, update.observations[1])
           h4 == IF update.tasks = Null THEN h3
                 ELSE AllocTasks(h3, update.tasks[1])
           truthy == IF update.activeTaskId = Null THEN FALSE
                     ELSE update.activeTaskId[1] # Null
       IN Assign(h4,
            [rootTaskId |-> top.rootTaskId,
             activeTaskId |-> IF update.activeTaskId = Null
                              THEN top.activeTaskId
                              ELSE update.activeTaskId[1],
             masterPlan |-> IF update.masterPlan = Null THEN top.masterPlan
                            ELSE update.masterPlan,
             workingMemory |-> Len(heap.maps) + 1,
             metadata |-> Len(heap.maps) + 2,
             observations |-> IF update.observations = Null
                              THEN top.observations
                              ELSE Len(heap.observations) + 1,
             tasks |-> IF update.tasks = Null THEN top.tasks
                       ELSE Len(heap.tasks) + 1,
             iteration |-> IF update.iteration # Null THEN update.iteration[1]
                           ELSE IF truthy THEN top.iteration + 1
                           ELSE top.iteration])

\* the holder of the snapshot returned as handles[s] writes to it: to a
\* field of the object and to every object it refers to
SnapshotWritten(s) ==
    /\ s \in 1..Len(handles)
    /\ LET top == heap.tops[handles[s]]
       IN heap' = [heap EXCEPT
                     !.tops[handles[s]].activeTaskId = Null,
                     !.tasks[top.tasks] = NoTasks,
                     !.observations[top.observations] = <<"written">>,
                     !.maps[top.workingMemory] = [k |-> 3],
                     !.maps[top.metadata] = [k |-> 3]]
    /\ UNCHANGED <<fsmVars, bridgeVars, busVars, storeVars, clockVars, schemaVars, thisSnapshot, handles>>

\* the operations of a context nobody takes a snapshot of
NextContext ==
    \/ \E taskId \in {Null, Some("t1")} : SetActiveTask(taskId)
    \/ \E task \in TaskNodes : UpsertTask(task)
    \/ \E parentId, childId \in TaskIds : LinkChild(parentId, childId)
    \/ AddObservation
    \/ MergeWorkingMemory([k |-> 1])
    \/ \E update \in Updates : Patch(update)

ContextSpec == InitContext /\ [][NextContext]_vars

\* the operations of a context and of the holders of its snapshots
NextSnapshot ==
    \/ GetSnapshot
    \/ \E s \in 1..MaxObjects : SnapshotWritten(s)
    \/ SetActiveTask(Null)
    \/ UpsertTask([taskId |-> "t1", parentId |-> Some("root"),
                   children |-> Null])
    \/ LinkChild("root", "t1")
    \/ AddObservation
    \/ MergeWorkingMemory([k |-> 1])
    \/ \E update \in ReplacingUpdates : Patch(update)

SnapshotSpec == InitContext /\ [][NextSnapshot]_vars

(***************************************************************************)
(* Claims about the AgentContext                                           *)
(***************************************************************************)
\* what the live context holds
Live == View(heap, thisSnapshot)

\* what the snapshot returned as handles[s] holds
Held(s) == View(heap, handles[s])

\* C21: after any sequence of operations of the context, patch with a tasks
\* map included, rootTaskId is a key of tasks.
C21_RootTaskResolves == Live.rootTaskId \in DOMAIN Live.tasks

\* C22: after any sequence of operations, every id listed in the children
\* of a task is a key of tasks, and that child's parentId is the task's id.
C22_ChildrenResolveAndPointBack ==
    \A id \in DOMAIN Live.tasks :
        \A i \in 1..Len(Live.tasks[id].children) :
            LET child == Live.tasks[id].children[i]
            IN /\ child \in DOMAIN Live.tasks
               /\ Live.tasks[child].parentId = Some(Live.tasks[id].taskId)

C27_PatchCountsActiveTaskUpdates ==
    [][ \A update \in Updates :
           Patch(update) =>
              Live'.iteration =
                 IF update.iteration # Null THEN update.iteration[1]
                 ELSE IF update.activeTaskId # Null THEN Live.iteration + 1
                 ELSE Live.iteration
      ]_vars

(***************************************************************************)
(* The eventId of the events on the bus.  AgentRuntime's subscriber calls  *)
(* emitAgentTransition for each state the actor reports; Executor.execute  *)
(* emits tool.request before the tool call and tool.result after it.       *)
(***************************************************************************)
MaxClock == 2     \* milliseconds that pass
MaxEmitted == 4   \* events emitted

\* config.agentId, the same for every run of the runtime
AgentId == "devpanel-agent"

\* `${snapshot.agentId}-${Date.now()}`: the text is determined by the two
\* values and determines them
TransitionEventId(agentId, ms) == [agentId |-> agentId, ms |-> ms]

\* the n-th id handed out by nanoid()
NanoEventId(n) == [nanoid |-> n]

InitEventIds ==
    /\ guardConfig = BridgeGuard
    /\ budget = Null
    /\ InitRun
    /\ InitBridgeIdle
    /\ InitBusIdle
    /\ InitClassIdle

\* a millisecond passes
ClockTicks ==
    /\ now < MaxClock
    /\ now' = now + 1
    /\ UNCHANGED <<fsmVars, bridgeVars, busVars, storeVars, contextVars, schemaVars, eventIds>>

\* emitAgentTransition, called by the subscriber for a state of the actor
EmitAgentTransition ==
    /\ Len(eventIds) < MaxEmitted
    /\ eventIds' = Append(eventIds, TransitionEventId(AgentId, now))
    /\ UNCHANGED <<fsmVars, bridgeVars, busVars, storeVars, contextVars, schemaVars, now>>

\* Executor.execute up to the tool call: traceId and eventId are taken from
\* nanoid() and tool.request is emitted
ExecuteEmitsRequest ==
    /\ call = "none"
    /\ Len(eventIds) < MaxEmitted
    /\ call' = "tool"
    /\ nanoidCount' = nanoidCount + 2
    /\ eventIds' = Append(eventIds, NanoEventId(nanoidCount + 2))
    /\ UNCHANGED <<guardConfig, state, status, settled, context, agentContext,
                   events, expired, budget, bridgeVars, busVars, storeVars, contextVars,
                   schemaVars, now>>

\* Executor.execute after the tool call: tool.result is emitted
ExecuteEmitsResult ==
    /\ call = "tool"
    /\ call' = "none"
    /\ nanoidCount' = nanoidCount + 1
    /\ eventIds' = Append(eventIds, NanoEventId(nanoidCount + 1))
    /\ UNCHANGED <<guardConfig, state, status, settled, context, agentContext,
                   events, expired, budget, bridgeVars, busVars, storeVars, contextVars,
                   schemaVars, now>>

NextEventIds ==
    \/ ClockTicks
    \/ EmitAgentTransition
    \/ ExecuteEmitsRequest
    \/ ExecuteEmitsResult

EventIdSpec == InitEventIds /\ [][NextEventIds]_vars

\* C26: no two events emitted on the bus, within a run or across the runs
\* of one process, have the same eventId, two state transitions within one
\* millisecond included.
C26_EventIdsUnique ==
    \A i, j \in 1..Len(eventIds) : i # j => eventIds[i] # eventIds[j]

(***************************************************************************)
(* MasterPlanSchema.  The values parsed are objects of the MasterPlan type *)
(* (every field present and of its type); what varies is what the schema   *)
(* constrains beyond the type: the length of planId, the number of steps    *)
(* and the pointer.                                                         *)
(***************************************************************************)
MaxSteps == 4   \* steps of a plan handed to the schema

\* the MasterPlan values handed to the schema
SchemaInputs ==
    [planId : {"plan-test", ""},
     steps : UNION {[1..n -> {"step"}] : n \in 0..MaxSteps},
     currentIndex : -1..(MaxSteps + 1)]

\* a pointer that may be one past the last step
pointsAtStepOrEnd(p) ==
    p.currentIndex >= 0 /\ p.currentIndex <= Len(p.steps)

\* the refinement: currentIndex must reference an existing plan step
pointsAtStep(p) ==
    p.currentIndex >= 0 /\ p.currentIndex < Len(p.steps)

\* the paths of the issues MasterPlanSchema reports for p: those of the
\* fields, none of which ends the parse of an object of the type, and that
\* of the refinement, which runs after them
MasterPlanSchema(p) ==
    (IF Len(p.planId) < 1 THEN {"planId"} ELSE {})
    \cup (IF Len(p.steps) < 1 THEN {"steps"} ELSE {})
    \cup (IF p.currentIndex < 0 THEN {"currentIndex"} ELSE {})
    \cup (IF pointsAtStep(p) THEN {} ELSE {"currentIndex"})

InitSchema ==
    /\ guardConfig = BridgeGuard
    /\ budget = Null
    /\ InitRun
    /\ InitBridgeIdle
    /\ InitBusIdle
    /\ heap = [tops |-> <<>>, tasks |-> <<>>, observations |-> <<>>,
               maps |-> <<>>]
    /\ thisSnapshot = 0
    /\ handles = <<>>
    /\ now = 0
    /\ eventIds = <<>>
    /\ candidate \in {Some(p) : p \in SchemaInputs}
    /\ issues = Null
    /\ InitStoreIdle

\* MasterPlanSchema.safeParse(candidate)
SafeParse ==
    /\ issues = Null
    /\ issues' = Some(MasterPlanSchema(candidate[1]))
    /\ UNCHANGED <<fsmVars, bridgeVars, busVars, storeVars, contextVars, clockVars,
                   candidate>>

NextSchema == SafeParse

SchemaSpec == InitSchema /\ [][NextSchema]_vars

\* C28: the schema accepts a plan only if steps is non-empty and
\* 0 <= currentIndex < len(steps); a plan whose currentIndex is
\* >= len(steps) is rejected with an issue on currentIndex, whatever the
\* number of steps.
C28_SchemaChecksPointer ==
    issues # Null =>
        LET p == candidate[1]
        IN /\ issues[1] = {} =>
                 /\ Len(p.steps) > 0
                 /\ 0 <= p.currentIndex /\ p.currentIndex < Len(p.steps)
           /\ p.currentIndex >= Len(p.steps) => "currentIndex" \in issues[1]

\* a plan of two steps with the pointer just past the last one has been
\* parsed and rejected
C28_Witness ==
    /\ issues # Null
    /\ Len(candidate[1].steps) = 2
    /\ candidate[1].currentIndex = 2
    /\ candidate[1].planId # ""
    /\ issues[1] = {"currentIndex"}

(***************************************************************************)
(* A run with the BaselinePlanner as Planner and the BaselineReflector as  *)
(* Reflector.  A master plan is its steps (each the tool of its first      *)
(* toolSequence entry, as above), and per step the retry limit and the      *)
(* status; its pointer, its planId and its history.                         *)
(***************************************************************************)
MaxBaselineEvents == 10  \* bus events after which no service completes
DEFAULT_RETRY_LIMIT == 2

\* the planId nanoid() returns on its n-th call, and one the LLM names
NanoPlanId(n) == <<"nanoid", n>>
LlmPlanId == <<"llm", 0>>

\* the plans parsePlanResponse returns: LLMPlanSchema leaves planId and the
\* retry of a step optional; the steps declare no status
LLMPlans ==
    [planId : {Null, Some(LlmPlanId)},
     steps : {<<"echo">>, <<"echo", "echo">>},
     limit : {Null, Some(0), Some(1)}]

\* MasterPlanHistoryEntry: the version after those of history, stamped ms
buildHistoryEntry(history, ms) ==
    [version |-> IF history = <<>> THEN 1
                 ELSE history[Len(history)].version + 1,
     timestamp |-> ms]

\* buildFallbackPlan: a plan of one step, made without looking at the plan
\* the context holds; n is the id nanoid() returns
buildFallbackPlan(n, ms) ==
    [planId |-> NanoPlanId(n),
     steps |-> <<"echo">>,
     retry |-> <<Some(DEFAULT_RETRY_LIMIT)>>,
     stepStatus |-> <<"in_progress">>,
     currentIndex |-> 0,
     history |-> <<[version |-> 1, timestamp |-> ms]>>]

\* composeMasterPlan for the parsed llmPlan and the plan the snapshot holds
composeMasterPlan(llmPlan, previousPlan, n, ms) ==
    LET baseHistory == IF previousPlan = Null THEN <<>>
                       ELSE previousPlan[1].history
    IN [planId |-> IF previousPlan # Null THEN previousPlan[1].planId
                   ELSE IF llmPlan.planId # Null THEN llmPlan.planId[1]
                   ELSE NanoPlanId(n),
        steps |-> llmPlan.steps,
        retry |-> [i \in 1..Len(llmPlan.steps) |->
                     IF llmPlan.limit # Null THEN llmPlan.limit
                     ELSE Some(DEFAULT_RETRY_LIMIT)],
        stepStatus |-> [i \in 1..Len(llmPlan.steps) |->
                          IF i = 1 THEN "in_progress" ELSE "pending"],
        currentIndex |-> 0,
        history |-> Append(baseHistory, buildHistoryEntry(baseHistory, ms))]

\* createReflectorService: what the Reflector is handed
ReflectInput(ctx) ==
    [plan |-> ctx.masterPlan[1],
     observation |-> ctx.observation,
     attempt |-> ctx.attempt + 1]

\* findNextExecutableStep: the first step after currentIndex that is not
\* succeeded, skipped or failed, as an index from 0, or null
findNextExecutableStep(stepStatus, currentIndex) ==
    LET open == {i \in (currentIndex + 1)..(Len(stepStatus) - 1) :
                    stepStatus[i + 1] \notin {"succeeded", "skipped", "failed"}}
    IN IF open = {} THEN Null
       ELSE Some(CHOOSE i \in open : \A j \in open : i <= j)

\* BaselineReflector.reflect
BaselineReflect(input, ms) ==
    LET p == input.plan
        at == p.currentIndex + 1
        retryLimit == IF p.retry[at] = Null THEN 0 ELSE p.retry[at][1]
        entry == buildHistoryEntry(p.history, ms)
        failed == IF input.observation = Null THEN TRUE
                  ELSE ~input.observation[1].success
        canRetry == input.attempt < retryLimit
        nextIndex == findNextExecutableStep(
                        [p.stepStatus EXCEPT ![at] = "succeeded"],
                        p.currentIndex)
    IN IF failed
       THEN [directive |-> IF canRetry THEN "retry" ELSE "abort",
             message |-> Some("m"),
             plan |-> [p EXCEPT
                         !.stepStatus[at] = IF canRetry THEN "in_progress"
                                            ELSE "failed",
                         !.history = Append(@, entry)]]
       ELSE IF nextIndex = Null
       THEN [directive |-> "complete",
             message |-> Some("m"),
             plan |-> [p EXCEPT
                         !.stepStatus[at] = "succeeded",
                         !.currentIndex = Len(p.steps) - 1,
                         !.history = Append(@, entry)]]
       ELSE [directive |-> "advance",
             message |-> Some("m"),
             plan |-> [p EXCEPT
                         !.stepStatus[at] = "succeeded",
                         !.stepStatus[nextIndex[1] + 1] =
                             IF @ \in {"pending", "ready"} THEN "in_progress"
                             ELSE @,
                         !.currentIndex = nextIndex[1],
                         !.history = Append(@, entry)]]

InitBaseline ==
    /\ guardConfig = [maxIterations |-> Null, maxFailures |-> Null,
                      maxDurationMs |-> Null]
    /\ budget = Some(MaxBaselineEvents)
    /\ InitRun
    /\ InitBridgeIdle
    /\ InitBusIdle
    /\ InitClassIdle

\* a millisecond passes during the run
RunClockTicks ==
    /\ status = "active"
    /\ ClockTicks

\* BaselinePlanner.plan resolves, with the fallback plan when the LLM is
\* not configured or fails. The fallback plan is built first in either case.
BaselinePlannerResolves(llm) ==
    /\ WithinBudget
    /\ Running /\ call = "planner"
    /\ call' = "none"
    /\ LET fallback == buildFallbackPlan(nanoidCount + 1, now)
           previousPlan == context.snapshot.masterPlan
           minted == previousPlan = Null /\ llm # Null /\ llm[1].planId = Null
       IN IF llm = Null
          THEN /\ settled' = DoneEvent("planner", Some(fallback))
               /\ nanoidCount' = nanoidCount + 1
          ELSE /\ settled' = DoneEvent("planner",
                                Some(composeMasterPlan(llm[1], previousPlan,
                                                       nanoidCount + 2, now)))
               /\ nanoidCount' = IF minted THEN nanoidCount + 2
                                 ELSE nanoidCount + 1
    /\ UNCHANGED <<guardConfig, state, status, context, agentContext, events,
                   expired, budget, bridgeVars, busVars, classVars>>

\* BaselineReflector.reflect resolves; buildResult takes an id from nanoid()
BaselineReflectorResolves ==
    /\ WithinBudget
    /\ Running /\ call = "reflector"
    /\ call' = "none"
    /\ settled' = DoneEvent("reflector",
                            Some(BaselineReflect(ReflectInput(context), now)))
    /\ nanoidCount' = nanoidCount + 1
    /\ UNCHANGED <<guardConfig, state, status, context, agentContext, events,
                   expired, budget, bridgeVars, busVars, classVars>>

\* a Reflector other than the BaselineReflector resolves with the directive
\* replan and the plan it was handed
ReflectorAsksReplan ==
    /\ call = "reflector"
    /\ ReflectorResolves(Some([directive |-> "replan",
                               message |-> Null,
                               plan |-> ReflectInput(context).plan]))

NextBaseline ==
    \/ Start
    \/ RunClockTicks
    \/ \E llm \in {Null} \cup {Some(l) : l \in LLMPlans} :
          BaselinePlannerResolves(llm)
    \/ PlanOnDone
    \/ \E success \in BOOLEAN : ToolReturns(success)
    \/ ActOnDone
    \/ ObserveAlways
    \/ BaselineReflectorResolves
    \/ ReflectorAsksReplan
    \/ ReflectOnDone

BaselineSpec == InitBaseline /\ [][NextBaseline]_vars

(***************************************************************************)
(* Claims about the plans of a run                                         *)
(***************************************************************************)
\* the master plan the AgentContext ac holds
StoredPlan(ac) == ac.masterPlan[1]

\* h is g, or g with entries appended
IsPrefix(g, h) == Len(g) <= Len(h) /\ SubSeq(h, 1, Len(g)) = g

\* C24: within one run, every master plan stored into the AgentContext, by
\* a planning, a replanning or a reflection, carries the planId of the
\* first plan stored: storing a plan never changes the planId.
C24_PlanIdStable ==
    [][ (agentContext.masterPlan # Null /\ agentContext'.masterPlan # Null)
           => StoredPlan(agentContext').planId = StoredPlan(agentContext).planId
      ]_vars

\* C25: the history of the stored plan only grows by appending: it starts
\* with version 1, each entry has the version after its predecessor's and a
\* timestamp that is not earlier, and the history of each plan stored has
\* that of the plan stored before as a prefix.
C25_HistoryAppendOnly ==
    [][ agentContext'.masterPlan # Null =>
           /\ LET h == StoredPlan(agentContext').history
              IN /\ h # <<>> /\ h[1].version = 1
                 /\ \A i \in 1..(Len(h) - 1) :
                       /\ h[i + 1].version = h[i].version + 1
                       /\ h[i + 1].timestamp >= h[i].timestamp
           /\ agentContext.masterPlan # Null =>
                 IsPrefix(StoredPlan(agentContext).history,
                          StoredPlan(agentContext').history)
      ]_vars

\* C30: a step with retry limit L (0 without a retry policy) whose tool
\* keeps returning success = false has been executed L + 1 times when the
\* BaselineReflector returns abort.
C30_RetriedLimitTimes ==
    (/\ settled # Null
     /\ settled[1].type = "done" /\ settled[1].src = "reflector"
     /\ settled[1].output[1].directive = "abort"
     /\ Cardinality({i \in 1..Len(events) :
                        events[i] = TransitionEvent("plan")}) = 1
     /\ \A i \in 1..Len(events) :
           events[i].type = "tool.result" => ~events[i].success)
    => LET p == StoredPlan(context)
           limit == p.retry[p.currentIndex + 1]
       IN Cardinality({i \in 1..Len(events) :
                          events[i].type = "tool.request"})
             = (IF limit = Null THEN 0 ELSE limit[1]) + 1

\* C29: maxFailures bounds failures in a row: the failure count compared
\* with maxFailures is zero again once the result of a successful Planner,
\* Executor or Reflector call has been handled.
C29_FailuresCountedInARow ==
    [][ (/\ \/ Receives("plan", "done")
            \/ Receives("act", "done")
            \/ Receives("reflect", "done")
         /\ settled' # settled)
           => context'.failures = 0
      ]_vars

(***************************************************************************)
(* Claims about failures, retries and the guards                           *)
(***************************************************************************)
\* the machine handles the error event of a rejected service
HandlesError ==
    /\ status = "active"
    /\ settled # Null /\ settled[1].type = "error"
    /\ settled' # settled

\* C31: every exception of the Planner, the Executor or the Reflector moves
\* the machine to error, adds one to failures and sets
\* workingMemory.lastError to the exception's message, in the live context
\* and in the machine's snapshot; attempt, iterations, masterPlan and
\* currentStep stay as they were.
C31_FailureIsRecorded ==
    [][HandlesError
          => /\ state' = "error"
             /\ context'.failures = context.failures + 1
             /\ agentContext'.workingMemory.lastError
                   = Some(settled[1].error.message)
             /\ context'.snapshot.workingMemory.lastError
                   = Some(settled[1].error.message)
             /\ context'.attempt = context.attempt
             /\ context'.iterations = context.iterations
             /\ context'.masterPlan = context.masterPlan
             /\ context'.currentStep = context.currentStep]_vars

\* the Reflector threw after a retry and after an earlier Planner failure
C31_Witness ==
    /\ state = "error"
    /\ context.failures = 2
    /\ context.attempt = 1 /\ context.iterations = 1
    /\ context.snapshot.workingMemory.lastError = Some("reflector")

\* the current step has no tool candidate or names an unregistered tool
NoUsableTool(ctx) ==
    /\ ctx.masterPlan # Null /\ ctx.currentStep # Null
    /\ \/ toolIdOf(ctx.currentStep[1]) = Null
       \/ toolIdOf(ctx.currentStep[1])[1] \notin RegisteredTools

\* C32: when the step has no tool candidate or its tool is not registered,
\* Executor.execute fails at once: entering act puts neither a tool.request
\* nor a tool.result on the bus and calls no tool, and the machine goes from
\* act to error with failures incremented by one and still no tool event.
C32_MissingToolFailsBeforeAnyEvent ==
    [][/\ (state' = "act" /\ state # "act" /\ NoUsableTool(context'))
          => /\ call' = "none"
             /\ settled' = ErrorEvent("executor")
             /\ \A i \in (Len(events) + 1)..Len(events') :
                   events'[i].type \notin {"tool.request", "tool.result"}
       /\ (state = "act" /\ NoUsableTool(context) /\ settled' # settled)
          => /\ state' = "error"
             /\ context'.failures = context.failures + 1
             /\ events' = events]_vars

\* a step naming an unregistered tool ended in error with no tool event
C32_Witness ==
    /\ state = "error"
    /\ context.currentStep = Some("ghost")
    /\ context.failures = 1
    /\ \A i \in 1..Len(events) :
          events[i].type \notin {"tool.request", "tool.result"}

\* C33: the attempt counter is incremented by one when a retry or fallback
\* directive is committed, reset to 0 when any other directive is committed
\* and when a Planner result is stored, and changed by nothing else; the
\* Reflector is handed the counter plus one. The value handed over is thus
\* 1 + the number of retry/fallback directives in a row.
C33_AttemptCountsRetriesInARow ==
    [][/\ IF /\ Receives("reflect", "done") /\ settled' # settled
             /\ settled[1].output # Null
          THEN context'.attempt =
                  IF settled[1].output[1].directive \in {"retry", "fallback"}
                  THEN context.attempt + 1 ELSE 0
          ELSE IF Receives("plan", "done") /\ settled' # settled
          THEN context'.attempt = 0
          ELSE context'.attempt = context.attempt
       /\ (call' = "reflector" /\ call # "reflector")
          => ReflectInput(context').attempt = context'.attempt + 1]_vars

\* two retry/fallback directives in a row were committed
C33_Witness ==
    /\ state = "act"
    /\ context.attempt = 2
    /\ context.iterations = 2

(***************************************************************************)
(* Claims about POST /run                                                  *)
(***************************************************************************)
\* C34: a POST /run that waited for a prior run starts its own run once the
\* prior run has settled, resolved or rejected: on leaving its wait the
\* handler has started a new run and waits for that one; it does not answer
\* with the prior run's error.
C34_WaitingRequestRunsItsOwnRun ==
    [][\A q \in RequestIds :
          (requests[q].pc = "awaitPrior" /\ requests'[q].pc # "awaitPrior")
             => /\ Len(runs') = Len(runs) + 1
                /\ requests'[q] = [pc |-> "awaitOwn", on |-> Some(Len(runs'))]
      ]_vars

\* C35: a POST /run that fails before it starts a run (its body is not
\* JSON) is answered with 500 and leaves activeRun as it was.
C35_FailedRequestKeepsActiveRun ==
    [][\A q \in RequestIds :
          (requests[q].pc = "readJson" /\ requests'[q].pc # "readJson")
             => \/ requests'[q].pc \in {"awaitPrior", "awaitOwn"}
                \/ /\ requests'[q].pc = "failed"
                   /\ activeRun' = activeRun
      ]_vars

(***************************************************************************)
(* Claims about the guards                                                 *)
(***************************************************************************)
\* C36: with maxIterations = N the iterations counter, which counts the
\* results of the Reflector the machine has committed, never exceeds N,
\* whatever directives the Reflector returns.
C36_IterationsBounded ==
    guardConfig.maxIterations # Null
       => context.iterations <= guardConfig.maxIterations[1]

\* C37: with maxFailures = M >= 1, failures never exceeds M, and once
\* failures = M no Planner, Executor or Reflector call is made again: the
\* machine is in error with no call pending and leaves it for finish.
C37_FailuresBounded ==
    [][guardConfig.maxFailures # Null
          => LET M == guardConfig.maxFailures[1]
             IN /\ context'.failures <= M
                /\ context'.failures = M
                   => /\ call' = "none"
                      /\ \/ state' = "error" /\ status' = "active"
                         \/ state' = "finish" /\ status' = "done"
                /\ (state = "error" /\ context.failures = M)
                   => state' = "finish"]_vars

\* the second of two allowed failures ended the run
C37_Witness ==
    /\ guardConfig.maxFailures = Some(2)
    /\ context.failures = 2
    /\ state = "finish" /\ status = "done"

\* C38: the Reflector is never handed a stale observation: when it is
\* invoked on the way back from error after a Planner or Executor call
\* failed, no Executor call has completed since, and the observation it is
\* handed is null.
C38_NoStaleObservation ==
    [][(/\ state = "error" /\ state' = "reflect" /\ call' = "reflector"
        /\ agentContext.workingMemory.lastError
              \in {Some("planner"), Some("executor")})
          => ReflectInput(context').observation = Null]_vars

(***************************************************************************)
(* The devpanel client: useRuntimeStore and connectBridgeRuntime, with the *)
(* bridge's GET /events handler on the other end of the connection.        *)
(***************************************************************************)
MaxMessages == 2       \* states the bridge's runtime announces
MaxReceived == 4       \* entries of the store's lists that are followed
MaxHealthChecks == 2   \* connect calls awaiting checkHealth at a time

\* no SSE response is held by the bridge
NoResponse == [c \in {} |-> <<>>]

\* the response the bridge holds for the store's EventSource
Response == 1

\* new EventSource(baseUrl + "/events"): the request is on its way
NewEventSource == Some([readyState |-> "connecting", read |-> 0])

\* the teardown function connectBridgeRuntime returned is held
Connected == Some("teardown")

\* the messages written to the response that the EventSource has not
\* dispatched yet
Unread ==
    IF eventSource = Null \/ Response \notin clients THEN <<>>
    ELSE SubSeq(written[Response], eventSource[1].read + 1,
                Len(written[Response]))

\* useRuntimeStore.connect up to its await of checkHealth
StoreConnect ==
    /\ storeStatus # "connected"
    /\ healthChecks < MaxHealthChecks
    /\ storeStatus' = "connecting"
    /\ healthChecks' = healthChecks + 1
    /\ UNCHANGED <<fsmVars, bridgeVars, busVars, contextVars, clockVars,
                   schemaVars, storeSnapshots, storeEvents, teardown,
                   eventSource, reconnectTimer>>

\* connect after checkHealth: an unhealthy bridge sets status error; else
\* the connection held is torn down and connectBridgeRuntime opens a new
\* EventSource (the bridge drops the response of the closed one)
HealthChecked(isHealthy) ==
    /\ healthChecks > 0
    /\ healthChecks' = healthChecks - 1
    /\ IF isHealthy
       THEN /\ teardown' = Connected
            /\ eventSource' = NewEventSource
            /\ reconnectTimer' = FALSE
            /\ clients' = {}
            /\ written' = NoResponse
            /\ UNCHANGED storeStatus
       ELSE /\ storeStatus' = "error"
            /\ UNCHANGED <<teardown, eventSource, reconnectTimer, clients,
                           written>>
    /\ UNCHANGED <<fsmVars, busVars, contextVars, clockVars, schemaVars,
                   requests, activeRun, runs, microtasks, eventHistory,
                   snapshotHistory, storeSnapshots, storeEvents>>

\* GET /events for the store's EventSource: the buffered snapshots and
\* events are written to the response, which joins the live clients
ServeEvents ==
    /\ eventSource # Null
    /\ eventSource[1].readyState = "connecting"
    /\ Response \notin clients
    /\ clients' = {Response}
    /\ written' = [c \in {Response} |-> Replay(snapshotHistory, eventHistory)]
    /\ UNCHANGED <<fsmVars, busVars, classVars, requests, activeRun, runs,
                   microtasks, eventHistory, snapshotHistory>>

\* eventSource.onopen: onConnected sets status connected
SourceOpens ==
    /\ eventSource # Null
    /\ eventSource[1].readyState = "connecting"
    /\ Response \in clients
    /\ eventSource' = Some([eventSource[1] EXCEPT !.readyState = "open"])
    /\ storeStatus' = "connected"
    /\ UNCHANGED <<fsmVars, bridgeVars, busVars, contextVars, clockVars,
                   schemaVars, storeSnapshots, storeEvents, teardown,
                   reconnectTimer, healthChecks>>

\* the EventSource dispatches its next message: onSnapshot appends to
\* snapshots and sets status connected, onEvent appends to events
SourceDispatches ==
    /\ eventSource # Null
    /\ eventSource[1].readyState = "open"
    /\ Unread # <<>>
    /\ Len(storeSnapshots) + Len(storeEvents) < MaxReceived
    /\ eventSource' = Some([eventSource[1] EXCEPT !.read = @ + 1])
    /\ IF Head(Unread).event = "snapshot"
       THEN /\ storeSnapshots' = Append(storeSnapshots, Head(Unread).data)
            /\ storeStatus' = "connected"
            /\ UNCHANGED storeEvents
       ELSE /\ storeEvents' = Append(storeEvents, Head(Unread).data)
            /\ UNCHANGED <<storeSnapshots, storeStatus>>
    /\ UNCHANGED <<fsmVars, bridgeVars, busVars, contextVars, clockVars,
                   schemaVars, teardown, reconnectTimer, healthChecks>>

\* the bridge's runtime announces a state: the snapshot and the agent event
\* are buffered and broadcast
BridgeAnnounces ==
    /\ Len(snapshotHistory) < MaxMessages
    /\ Announce(Len(snapshotHistory) + 1, "plan")
    /\ UNCHANGED <<guardConfig, state, status, call, settled, context,
                   agentContext, nanoidCount, expired, budget, busVars,
                   classVars, requests, activeRun, runs, microtasks, clients>>

\* eventSource.onerror: the connection failed. onError sets status error;
\* the browser retries on its own, or has given up (readyState CLOSED) and
\* the reconnect timer is set. The bridge drops the response.
SourceFails(closed) ==
    /\ eventSource # Null
    /\ eventSource[1].readyState \in {"connecting", "open"}
    /\ storeStatus' = "error"
    /\ IF closed
       THEN /\ eventSource' = Some([readyState |-> "closed", read |-> 0])
            /\ reconnectTimer' = TRUE
       ELSE /\ eventSource' = NewEventSource
            /\ UNCHANGED reconnectTimer
    /\ clients' = {}
    /\ written' = NoResponse
    /\ UNCHANGED <<fsmVars, busVars, contextVars, clockVars, schemaVars,
                   requests, activeRun, runs, microtasks, eventHistory,
                   snapshotHistory, storeSnapshots, storeEvents, teardown,
                   healthChecks>>

\* the reconnect timer fires: connect() of connectBridgeRuntime again
ReconnectTimerFires ==
    /\ reconnectTimer
    /\ reconnectTimer' = FALSE
    /\ eventSource' = NewEventSource
    /\ UNCHANGED <<fsmVars, bridgeVars, busVars, contextVars, clockVars,
                   schemaVars, storeStatus, storeSnapshots, storeEvents,
                   teardown, healthChecks>>

\* useRuntimeStore.disconnect: teardown, and the lists are emptied
StoreDisconnect ==
    /\ teardown' = Null
    /\ eventSource' = Null
    /\ reconnectTimer' = FALSE
    /\ clients' = {}
    /\ written' = NoResponse
    /\ storeStatus' = "idle"
    /\ storeSnapshots' = <<>>
    /\ storeEvents' = <<>>
    /\ UNCHANGED <<fsmVars, busVars, contextVars, clockVars, schemaVars,
                   requests, activeRun, runs, microtasks, eventHistory,
                   snapshotHistory, healthChecks>>

NextStore ==
    \/ StoreConnect
    \/ \E isHealthy \in BOOLEAN : HealthChecked(isHealthy)
    \/ ServeEvents
    \/ SourceOpens
    \/ SourceDispatches
    \/ BridgeAnnounces
    \/ \E closed \in BOOLEAN : SourceFails(closed)
    \/ ReconnectTimerFires
    \/ StoreDisconnect

StoreSpec == InitBridge /\ [][NextStore]_vars

\* no entry of the list occurs in it twice
NoDuplicates(list) ==
    \A i, j \in 1..Len(list) : list[i] = list[j] => i = j

\* C39: after any sequence of connect, disconnect, connection errors with
\* reconnection and repeated connect calls, the store's events list and its
\* snapshots list hold each message of the bridge at most once.
C39_StoreHoldsEachMessageOnce ==
    NoDuplicates(storeEvents) /\ NoDuplicates(storeSnapshots)

====
